---- MODULE Spec2Model ----
(***************************************************************************)
(* State machine of DropdownRoot (src/src/DropdownRoot.tsx): the open /    *)
(* close / animating state of one dropdown instance, its search query and  *)
(* selection, the setTimeout timers its handlers start, and the calls it   *)
(* makes to the caller's onOpenChange and onSelect callbacks, and the       *)
(* placement it computes for the panel; with it the components and hooks   *)
(* around it: DropdownContent and DropdownList (src/src/DropdownContent.tsx *)
(* and DropdownList.tsx) and the hooks of src/src/DropdownContext.tsx.      *)
(*                                                                         *)
(* Strings are sequences of one-character strings.  Time advances in ticks *)
(* of 50 ms, so that the default enterDuration (0.2 s) is 4 ticks and the  *)
(* default exitDuration (0.15 s) is 3 ticks.                               *)
(***************************************************************************)
EXTENDS Integers, Sequences, FiniteSets, TLC

VARIABLES
  mounted,               \* the DropdownRoot instance is mounted
  disabled,              \* prop disabled
  closeOnSelect,         \* prop closeOnSelect
  items,                 \* prop items (each item is modelled by its display text)
  isOpen,                \* useState(false)
  selectedItem,          \* useState(initialSelectedItem)
  searchQuery,           \* useState("")
  animationState,        \* useState("idle")
  skipExitAnimationRef,  \* useRef(false)
  timers,                \* pending setTimeout callbacks, in scheduling order
  onOpenChangeCalls,     \* arguments of the onOpenChange calls of the last handler run
  onOpenChangeLast,      \* the argument of the latest onOpenChange call so far, as
                         \* <<b>>; <<>> when there has been none (history)
  onSelectCalls,         \* arguments of the onSelect calls of the last handler run
  customOnSelectCalls,   \* arguments of the calls of DropdownList's own onSelect prop
                         \* in the last handler run
  lastOp,                \* the last handler or timer callback that ran, and the
                         \* isOpen and searchQuery it found
  placement,             \* the placement the caller asks for: "bottom", "top" or "auto"
  viewportHeight,        \* window.innerHeight
  triggerRect,           \* getBoundingClientRect() of the trigger, or NoRect
  computedPlacement,     \* useState(...) of the instance given placement = placement
  aliasComputedPlacement, \* the same state of an instance given dropdownPlacement =
                         \* placement instead, and put through the same operations
  selectedItemProp,      \* prop selectedItem (NoItem when not given)
  filterItems,           \* prop filterItems: Undefined, or the caller's filter
  filteredItemsMemo,     \* useMemo(() => filterFunction(items, searchQuery), ...)
  composition,           \* the children of the root: "custom" (no DropdownContent and
                         \* no DropdownList), "list" (a DropdownList alone),
                         \* "searchable" (DropdownSearchable: a DropdownContent around
                         \* a DropdownSearch and a DropdownList) or "content" (the
                         \* caller's own DropdownContent around a DropdownList)
  disableAnimation,      \* prop disableAnimation of DropdownContent
  sectionAccessor,       \* getItemSection as DropdownList resolves it: <<>> when
                         \* absent, <<f>> for the function f
  customOnSelect,        \* DropdownList is given an onSelect prop of its own
  content,               \* state, ref and pending timer of DropdownContent
  list,                  \* whether DropdownList is mounted, and its prevIsOpenRef
  groupedItems,          \* useMemo(() => groupItemsBySection(items, sectionAccessor))
                         \* of the mounted DropdownList
  listening,             \* the number of listeners useClickOutside has on document,
                         \* for each event type
  requests,              \* focus, scrollIntoView and closeDropdown requests issued by
                         \* effects, listeners and key handlers in the last step
  keyboard,              \* items, focusedIndexRef and focusedIndex of a
                         \* useKeyboardNavigation hook
  contextRead            \* what the last useDropdownContext() call did

hookState == <<isOpen, selectedItem, searchQuery, animationState, skipExitAnimationRef>>
props == <<disabled, closeOnSelect, items>>
observed ==
  <<onOpenChangeCalls, onOpenChangeLast, onSelectCalls, customOnSelectCalls, lastOp>>
placementState ==
  <<placement, viewportHeight, triggerRect, computedPlacement, aliasComputedPlacement>>
treeProps ==
  <<selectedItemProp, filterItems, composition, disableAnimation, sectionAccessor,
    customOnSelect>>
treeState == <<filteredItemsMemo, content, list, groupedItems, listening, requests>>
vars == <<mounted, props, hookState, timers, observed, placementState,
          treeProps, treeState, keyboard, contextRead>>

----------------------------------------------------------------------------
(* Bounds of the model *)

\* at most this many setTimeout callbacks are pending at once
MaxTimers == 2

\* defaultFilter on its own is applied to lists of at most this many items
MaxFilterItems == 2
\* and to queries of at most this many characters
MaxQueryLen == 3
\* useKeyboardNavigation is given lists of at most this many items
MaxKeyboardItems == 3
\* groupItemsBySection on its own is applied to lists of at most this many items
MaxGroupItems == 3

(* Program constants *)

\* enterDuration = 0.2 s, in ticks of 50 ms
EnterTicks == 4
\* exitDuration = 0.15 s, in ticks of 50 ms
ExitTicks == 3
\* EXIT_ANIMATION_DURATION_MS = 150, in ticks of 50 ms
ContentExitTicks == 3

Undefined == "undefined"

NoItem == <<"null">>

ItemList == << <<"A", "b">>, <<"b", "c">> >>

Queries == { <<>>, <<"a">>, <<" ", "B">> }

\* the item lists the caller replaces items with
ItemLists == { ItemList, <<>>, << <<"b", "c">> >>, << <<"a">>, <<"A", "b">> >> }

----------------------------------------------------------------------------
(* Strings *)

toLowerCase(s) ==
  [i \in 1..Len(s) |-> CASE s[i] = "A" -> "a"
                         [] s[i] = "B" -> "b"
                         [] s[i] = "C" -> "c"
                         [] OTHER -> s[i]]

RECURSIVE trimStart(_)
trimStart(s) == IF s # <<>> /\ Head(s) = " " THEN trimStart(Tail(s)) ELSE s

RECURSIVE trimEnd(_)
trimEnd(s) ==
  IF s # <<>> /\ s[Len(s)] = " " THEN trimEnd(SubSeq(s, 1, Len(s) - 1)) ELSE s

trim(s) == trimEnd(trimStart(s))

includes(hay, needle) ==
  \E i \in 1..(Len(hay) - Len(needle) + 1) :
     SubSeq(hay, i, i + Len(needle) - 1) = needle

getItemDisplay(item) == item

\* defaultFilter that compares the display text as it is written (mutant)
defaultFilter_CaseSensitive(its, query) ==
  IF trim(query) = <<>>
  THEN its
  ELSE LET normalizedQuery == trim(toLowerCase(query))
           Keep(item) == includes(getItemDisplay(item), normalizedQuery)
       IN SelectSeq(its, Keep)

defaultFilter(its, query) ==
  IF trim(query) = <<>>
  THEN its
  ELSE LET normalizedQuery == trim(toLowerCase(query))
           Keep(item) == includes(toLowerCase(getItemDisplay(item)), normalizedQuery)
       IN SelectSeq(its, Keep)

\* a filterItems of the caller: the items whose display text starts with the query
startsWithFilter(its, query) ==
  LET Keep(item) == /\ Len(getItemDisplay(item)) >= Len(query)
                    /\ SubSeq(getItemDisplay(item), 1, Len(query)) = query
  IN SelectSeq(its, Keep)

\* filterItems || defaultFilter
filterWith(filterItemsProp, its, query) ==
  IF filterItemsProp # Undefined
  THEN startsWithFilter(its, query)
  ELSE defaultFilter(its, query)

filterFunction(its, query) == filterWith(filterItems, its, query)

filteredItems == filterFunction(items, searchQuery)

getItemKey(item) == item

\* useMemo that never computes again (mutant)
useMemo_Stale(cached, depsBefore, depsAfter, computed) ==
  cached

\* useMemo: the cached value is kept unless a dependency changed
useMemo(cached, depsBefore, depsAfter, computed) ==
  IF depsAfter # depsBefore THEN computed ELSE cached

----------------------------------------------------------------------------
(* Placement *)

Placements == {"bottom", "top", "auto"}

NoRect == [top |-> 0, height |-> -1]

\* trigger rectangles above, exactly at and below the middle of a viewport 8 high
Rects == {NoRect} \cup {[top |-> t, height |-> 2] : t \in {1, 3, 5}}

\* the rectangles and viewports computePlacement is applied to on its own
MaxTop == 8
MaxHeight == 3
FnRects == {NoRect} \cup [top : -2..MaxTop, height : 0..MaxHeight]
Viewports == {7, 8}

\* computePlacement that also sends a trigger centred exactly at mid-viewport
\* to the top (mutant)
computePlacement_AtOrBelowHalf(rect, requested) ==
  IF requested # "auto" THEN requested
  ELSE IF rect = NoRect THEN "bottom"
  ELSE IF 2 * rect.top + rect.height >= viewportHeight THEN "top" ELSE "bottom"

\* triggerCenter > viewportHeight / 2, with both sides doubled to stay in the integers
computePlacement(rect, requested) ==
  IF requested # "auto" THEN requested
  ELSE IF rect = NoRect THEN "bottom"
  ELSE LET triggerCenterTimes2 == 2 * rect.top + rect.height
           isInLowerHalf == triggerCenterTimes2 > viewportHeight
       IN IF isInLowerHalf THEN "top" ELSE "bottom"

\* effectivePlacement that does not look at the deprecated prop (mutant)
effectivePlacement_IgnoresAlias(dropdownPlacementProp, placementProp) ==
  placementProp

\* dropdownPlacement || placement
effectivePlacement(dropdownPlacementProp, placementProp) ==
  IF dropdownPlacementProp # Undefined THEN dropdownPlacementProp ELSE placementProp

\* the placement of the instance given placement = requested
viaPlacement(requested) == effectivePlacement(Undefined, requested)

\* the placement of the instance given dropdownPlacement = requested (placement
\* then has its default, "bottom")
viaAlias(requested) == effectivePlacement(requested, "bottom")

\* initial state that stores the request as it is (mutant)
initialComputedPlacement_Raw(effective) ==
  effective

initialComputedPlacement(effective) ==
  IF effective = "auto" THEN "bottom" ELSE effective

\* the body of the placement effect, run after a render with isOpen = open
placementEffect(current, open, effective) ==
  IF open /\ effective = "auto" THEN computePlacement(triggerRect, effective)
  ELSE IF effective # "auto" THEN effective
  ELSE current

\* the effect without its dependency list: it runs after every render (mutant)
afterRender_EveryRender(current, effectiveBefore, effectiveAfter) ==
  placementEffect(current, isOpen', effectiveAfter)

\* the effect runs after the renders in which one of its dependencies changed
afterRender(current, effectiveBefore, effectiveAfter) ==
  IF isOpen' # isOpen \/ effectiveAfter # effectiveBefore
  THEN placementEffect(current, isOpen', effectiveAfter)
  ELSE current

PlacementEffects ==
  /\ computedPlacement' =
        afterRender(computedPlacement, viaPlacement(placement), viaPlacement(placement'))
  /\ aliasComputedPlacement' =
        afterRender(aliasComputedPlacement, viaAlias(placement), viaAlias(placement'))

----------------------------------------------------------------------------
(* The components under the root, and the effects that concern them.  A    *)
(* step of the model is a handler with the renders and effects it causes,  *)
(* in React's order: render, layout effects, passive effects, and the      *)
(* render that the state set by a passive effect causes.                   *)

hasContent(comp) == comp \in {"searchable", "content"}

\* DropdownSearchable renders a DropdownSearch, with no inputRef
hasSearch(comp) == comp = "searchable"

\* DropdownContent as its first render leaves it: useState(isOpen), useRef(isOpen)
NewContent(open) ==
  [shouldRender |-> open, isClosing |-> FALSE, prevIsOpen |-> open, timer |-> <<>>]

\* the effect on [isOpen, disableAnimation]; its cleanup clears the exit timer.  On
\* the animated closing path the effect returns before prevIsOpen is written.
\* the effect without its cleanup: a reopening leaves the exit timer (mutant)
contentEffect_NoCleanup(c, openBefore, open, disableBefore, disable) ==
  IF open = openBefore /\ disable = disableBefore THEN c
  ELSE IF open
       THEN [c EXCEPT !.shouldRender = TRUE, !.isClosing = FALSE, !.prevIsOpen = TRUE]
       ELSE IF c.prevIsOpen
       THEN IF disable
            THEN [c EXCEPT !.shouldRender = FALSE, !.prevIsOpen = FALSE]
            ELSE [c EXCEPT !.isClosing = TRUE, !.timer = <<ContentExitTicks>>]
       ELSE [c EXCEPT !.prevIsOpen = FALSE]

contentEffect(c, openBefore, open, disableBefore, disable) ==
  IF open = openBefore /\ disable = disableBefore THEN c
  ELSE LET c0 == [c EXCEPT !.timer = <<>>]
       IN IF open
          THEN [c0 EXCEPT !.shouldRender = TRUE, !.isClosing = FALSE, !.prevIsOpen = TRUE]
          ELSE IF c0.prevIsOpen
          THEN IF disable
               THEN [c0 EXCEPT !.shouldRender = FALSE, !.prevIsOpen = FALSE]
               ELSE [c0 EXCEPT !.isClosing = TRUE, !.timer = <<ContentExitTicks>>]
          ELSE [c0 EXCEPT !.prevIsOpen = FALSE]

contentTimerCallback(c) ==
  [c EXCEPT !.shouldRender = FALSE, !.isClosing = FALSE, !.timer = <<>>]

NoList == [mounted |-> FALSE, prevIsOpenRef |-> FALSE]

\* what a section accessor returns: <<>> for null or undefined, <<meta>> for a
\* DropdownSectionMeta
NoSection == <<>>

NoGrouping == [sections |-> <<>>, ungrouped |-> <<>>]

\* the body of forEach putting an item in front of its bucket (mutant)
groupItem_Prepends(acc, item, section) ==
  IF section = NoSection
  THEN [acc EXCEPT !.ungrouped = Append(@, item)]
  ELSE LET existingIndex ==
             {i \in 1..Len(acc.sections) : acc.sections[i].meta.key = section[1].key}
       IN IF existingIndex = {}
          THEN [acc EXCEPT !.sections = Append(@, [meta |-> section[1], items |-> <<item>>])]
          ELSE LET i == CHOOSE i \in existingIndex : TRUE
               IN [acc EXCEPT !.sections[i].items = <<item>> \o @]

\* the body of forEach with the buckets indexed by section.label (mutant)
groupItem_ByLabel(acc, item, section) ==
  IF section = NoSection
  THEN [acc EXCEPT !.ungrouped = Append(@, item)]
  ELSE LET existingIndex ==
             {i \in 1..Len(acc.sections) : acc.sections[i].meta.label = section[1].label}
       IN IF existingIndex = {}
          THEN [acc EXCEPT !.sections = Append(@, [meta |-> section[1], items |-> <<item>>])]
          ELSE LET i == CHOOSE i \in existingIndex : TRUE
               IN [acc EXCEPT !.sections[i].items = Append(@, item)]

\* the body of items.forEach; sectionIndex.get(section.key) is the index of the
\* bucket pushed for that key
groupItem(acc, item, section) ==
  IF section = NoSection
  THEN [acc EXCEPT !.ungrouped = Append(@, item)]
  ELSE LET existingIndex ==
             {i \in 1..Len(acc.sections) : acc.sections[i].meta.key = section[1].key}
       IN IF existingIndex = {}
          THEN [acc EXCEPT !.sections = Append(@, [meta |-> section[1], items |-> <<item>>])]
          ELSE LET i == CHOOSE i \in existingIndex : TRUE
               IN [acc EXCEPT !.sections[i].items = Append(@, item)]

RECURSIVE groupForEach(_, _, _)
groupForEach(its, resolveSection, acc) ==
  IF its = <<>> THEN acc
  ELSE groupForEach(Tail(its), resolveSection,
                    groupItem(acc, Head(its), resolveSection[1][Head(its)]))

groupItemsBySection(its, resolveSection) ==
  IF resolveSection = <<>>
  THEN [sections |-> <<>>, ungrouped |-> its]
  ELSE groupForEach(its, resolveSection, NoGrouping)

\* groupedItems of a list given the filtered items
listGrouping(l, its, resolveSection) ==
  IF l.mounted THEN groupItemsBySection(its, resolveSection) ELSE NoGrouping

\* the list is a child of the root, or a child of DropdownContent
listShown(comp, c) ==
  comp = "list" \/ (hasContent(comp) /\ c.shouldRender)

\* the scroll effect of a mounted list, on [isOpen, selectedItem, getItemKey];
\* rendered is the item list it was given (the filtered items)
scrollRequests(l, openBefore, open, selectedBefore, selected, rendered) ==
  IF /\ l.mounted
     /\ open # openBefore \/ selected # selectedBefore
     /\ open
     /\ ~l.prevIsOpenRef
     /\ selected # NoItem
     /\ \E i \in 1..Len(rendered) : getItemKey(rendered[i]) = getItemKey(selected)
  THEN << <<"scrollIntoView", getItemKey(selected)>> >>
  ELSE <<>>

listEffect(l, openBefore, open, selectedBefore, selected) ==
  IF l.mounted /\ (open # openBefore \/ selected # selectedBefore)
  THEN [l EXCEPT !.prevIsOpenRef = open]
  ELSE l

\* a list that mounts starts with useRef(isOpen), and its first effect finds
\* prevIsOpenRef equal to isOpen
listAfterRender(l, shown, open) ==
  IF shown /\ ~l.mounted THEN [mounted |-> TRUE, prevIsOpenRef |-> open]
  ELSE IF ~shown /\ l.mounted THEN NoList
  ELSE l

\* the root's inputRef is passed to no element: it is not in the context value,
\* and DropdownSearchable gives DropdownSearch no inputRef
inputRefCurrent == <<>>

\* the layout effect on [isOpen]
focusRequests(openBefore, open) ==
  IF open # openBefore /\ open /\ inputRefCurrent # <<>>
  THEN << <<"focus">> >>
  ELSE <<>>

PointerEvents == {"mousedown", "touchstart"}

NoListeners == [type \in PointerEvents |-> 0]

addEventListeners(l) == [type \in PointerEvents |-> l[type] + 1]

removeEventListeners(l) == [type \in PointerEvents |-> l[type] - 1]

\* the cleanup of the effect, which exists when the effect ran with isOpen true
clickOutsideCleanup(l, openBefore) ==
  IF openBefore THEN removeEventListeners(l) ELSE l

\* the listeners attached whatever isOpen (mutant)
clickOutsideEffect_Always(l, openBefore, open) ==
  addEventListeners(NoListeners)

\* the effect with no cleanup returned (mutant)
clickOutsideEffect_NoCleanup(l, openBefore, open) ==
  IF open # openBefore /\ open THEN addEventListeners(l) ELSE l

\* the effect of useClickOutside on [isOpen, handleClickOutside], after the
\* cleanup of its last run; handleClickOutside is the same function in every
\* render (useCallback on [dropdownRef])
clickOutsideEffect(l, openBefore, open) ==
  IF open = openBefore THEN l
  ELSE LET cleaned == clickOutsideCleanup(l, openBefore)
       IN IF open THEN addEventListeners(cleaned) ELSE cleaned

\* pre: the requests of the handler itself
TreeEffects(pre) ==
  /\ filteredItemsMemo' =
        useMemo(filteredItemsMemo, <<items, searchQuery, filterItems>>,
                <<items', searchQuery', filterItems'>>,
                filterWith(filterItems', items', searchQuery'))
  /\ content' =
        IF hasContent(composition)
        THEN contentEffect(content, isOpen, isOpen', disableAnimation, disableAnimation')
        ELSE content
  /\ list' =
        listAfterRender(listEffect(list, isOpen, isOpen', selectedItem, selectedItem'),
                        listShown(composition, content'), isOpen')
  /\ groupedItems' =
        IF list.mounted /\ list'.mounted
        THEN useMemo(groupedItems, <<filteredItemsMemo, sectionAccessor>>,
                     <<filteredItemsMemo', sectionAccessor'>>,
                     groupItemsBySection(filteredItemsMemo', sectionAccessor'))
        ELSE listGrouping(list', filteredItemsMemo', sectionAccessor')
  /\ listening' = clickOutsideEffect(listening, isOpen, isOpen')
  /\ requests' =
        pre \o focusRequests(isOpen, isOpen')
            \o scrollRequests(list, isOpen, isOpen', selectedItem, selectedItem',
                              filteredItemsMemo')

\* useState that follows its argument on every render (mutant)
useState_Resyncs(current, initial) ==
  initial

\* useState(initial) in a render after the first: the argument is ignored
useState(current, initial) ==
  current

----------------------------------------------------------------------------
(* The hooks of DropdownContext.tsx *)

SeqsUpTo(S, n) == UNION {[1..k -> S] : k \in 0..n}

Min(a, b) == IF a < b THEN a ELSE b

Max(a, b) == IF a > b THEN a ELSE b

Keys == {"ArrowDown", "ArrowUp", "Enter", "Escape", "Tab"}

\* useRef(-1) and useState(-1); indices count from 0 as in the source
NewKeyboard(its) == [items |-> its, focusedIndexRef |-> -1, focusedIndex |-> -1]

handleKeyDown(k, key) ==
  CASE key = "ArrowDown" ->
         LET index == Min(k.focusedIndexRef + 1, Len(k.items) - 1)
         IN [k EXCEPT !.focusedIndexRef = index, !.focusedIndex = index]
    [] key = "ArrowUp" ->
         LET index == Max(k.focusedIndexRef - 1, 0)
         IN [k EXCEPT !.focusedIndexRef = index, !.focusedIndex = index]
    [] OTHER -> k

\* Enter that selects the first item whatever the cursor (mutant)
keyDownSelects_First(k, key) ==
  IF key = "Enter" /\ Len(k.items) > 0
  THEN <<k.items[1]>>
  ELSE <<>>

\* Enter that selects the last item when the cursor is past the end of the
\* list (mutant)
keyDownSelects_Clamped(k, key) ==
  IF key = "Enter" /\ k.focusedIndexRef >= 0 /\ Len(k.items) > 0
  THEN <<k.items[Min(k.focusedIndexRef + 1, Len(k.items))]>>
  ELSE <<>>

\* the arguments of the onSelect calls that handleKeyDown makes
keyDownSelects(k, key) ==
  IF key = "Enter" /\ k.focusedIndexRef >= 0 /\ k.focusedIndexRef < Len(k.items)
  THEN <<k.items[k.focusedIndexRef + 1]>>
  ELSE <<>>

\* the closeDropdown calls that handleKeyDown makes
keyDownRequests(k, key) ==
  IF key = "Escape" THEN << <<"closeDropdown">> >> ELSE <<>>

resetFocus(k) == [k EXCEPT !.focusedIndexRef = -1, !.focusedIndex = -1]

\* the value DropdownRoot gives its provider (the fields that are state or props
\* of the model)
contextValue ==
  [ isOpen |-> isOpen,
    selectedItem |-> selectedItem,
    searchQuery |-> searchQuery,
    items |-> items,
    filteredItems |-> filteredItemsMemo,
    disabled |-> disabled,
    closeOnSelect |-> closeOnSelect,
    animationState |-> animationState,
    computedPlacement |-> computedPlacement ]

\* the first line of the message of the error thrown, word by word
ErrorMessage ==
  <<"useDropdownContext", "must", "be", "used", "within", "<Dropdown.Root>.">>

NotRead == [outcome |-> "none", message |-> <<>>, value |-> <<>>]

\* context is <<>> for useContext's null (no provider in scope), <<v>> for value v
useDropdownContext(context) ==
  IF context = <<>>
  THEN [outcome |-> "threw", message |-> ErrorMessage, value |-> <<>>]
  ELSE [outcome |-> "returned", message |-> <<>>, value |-> context]

----------------------------------------------------------------------------
(* The state a handler works on, and the handlers as functions on it *)

Cur ==
  [ isOpen |-> isOpen,
    selectedItem |-> selectedItem,
    searchQuery |-> searchQuery,
    animationState |-> animationState,
    skipExitAnimationRef |-> skipExitAnimationRef,
    timers |-> timers,
    onOpenChangeCalls |-> <<>>,
    onSelectCalls |-> <<>>,
    customOnSelectCalls |-> <<>> ]

\* superseded is a history mark, set by CloseImmediate below: a closeImmediate
\* has run while the timer was pending
NewTimer(kind, ticks) == [kind |-> kind, remaining |-> ticks, superseded |-> FALSE]

setTimeout(s, kind, ticks) ==
  [s EXCEPT !.timers = Append(@, NewTimer(kind, ticks))]

onOpenChange(s, open) ==
  [s EXCEPT !.onOpenChangeCalls = Append(@, open)]

\* openDropdown without the onOpenChange(true) call (mutant)
openDropdown_NoCallback(s) ==
  IF disabled THEN s
  ELSE setTimeout([s EXCEPT !.skipExitAnimationRef = FALSE,
                            !.animationState = "entering",
                            !.isOpen = TRUE], "enter", EnterTicks)

\* openDropdown without the disabled guard (mutant)
openDropdown_IgnoresDisabled(s) ==
  setTimeout(onOpenChange([s EXCEPT !.skipExitAnimationRef = FALSE,
                                    !.animationState = "entering",
                                    !.isOpen = TRUE], TRUE), "enter", EnterTicks)

\* openDropdown that leaves skipExitAnimationRef as it is (mutant)
openDropdown_KeepsSkip(s) ==
  IF disabled THEN s
  ELSE setTimeout(onOpenChange([s EXCEPT !.animationState = "entering",
                                         !.isOpen = TRUE], TRUE), "enter", EnterTicks)

openDropdown(s) ==
  IF disabled THEN s
  ELSE LET s1 == [s EXCEPT !.skipExitAnimationRef = FALSE,
                           !.animationState = "entering",
                           !.isOpen = TRUE]
           s2 == onOpenChange(s1, TRUE)
       IN setTimeout(s2, "enter", EnterTicks)

\* the callback of the enter timer
enterTimerCallback(s) ==
  [s EXCEPT !.animationState = "idle"]

\* the exit timer's callback without setSearchQuery("") (mutant)
exitTimerCallback_KeepsQuery(s) ==
  onOpenChange([s EXCEPT !.isOpen = FALSE,
                         !.animationState = "idle"], FALSE)

\* the callback of the exit timer
exitTimerCallback(s) ==
  onOpenChange([s EXCEPT !.isOpen = FALSE,
                         !.searchQuery = <<>>,
                         !.animationState = "idle"], FALSE)

\* closeDropdown that starts the exit animation and no timer to end it (mutant)
closeDropdown_NoTimer(s) ==
  IF ~isOpen THEN s
  ELSE IF s.skipExitAnimationRef
  THEN onOpenChange([s EXCEPT !.isOpen = FALSE,
                              !.searchQuery = <<>>,
                              !.animationState = "idle"], FALSE)
  ELSE [s EXCEPT !.animationState = "exiting"]

closeDropdown(s) ==
  IF ~isOpen THEN s
  ELSE IF s.skipExitAnimationRef
  THEN onOpenChange([s EXCEPT !.isOpen = FALSE,
                              !.searchQuery = <<>>,
                              !.animationState = "idle"], FALSE)
  ELSE setTimeout([s EXCEPT !.animationState = "exiting"], "exit", ExitTicks)

\* closeImmediate that leaves animationState alone (mutant)
closeImmediate_KeepsAnimation(s) ==
  onOpenChange([s EXCEPT !.skipExitAnimationRef = TRUE,
                         !.isOpen = FALSE,
                         !.searchQuery = <<>>], FALSE)

closeImmediate(s) ==
  onOpenChange([s EXCEPT !.skipExitAnimationRef = TRUE,
                         !.isOpen = FALSE,
                         !.searchQuery = <<>>,
                         !.animationState = "idle"], FALSE)

\* toggleDropdown that closes only a dropdown at rest (mutant)
toggleDropdown_OpensWhileAnimating(s) ==
  IF isOpen /\ s.animationState = "idle" THEN closeDropdown(s) ELSE openDropdown(s)

toggleDropdown(s) ==
  IF isOpen THEN closeDropdown(s) ELSE openDropdown(s)

\* handleSelect that does not tell the caller (mutant)
handleSelect_NoCallback(s, item) ==
  LET s1 == [s EXCEPT !.selectedItem = item]
  IN IF closeOnSelect THEN closeDropdown(s1) ELSE s1

\* handleSelect that closes whatever closeOnSelect is (mutant)
handleSelect_AlwaysCloses(s, item) ==
  closeDropdown([s EXCEPT !.selectedItem = item,
                          !.onSelectCalls = Append(@, item)])

handleSelect(s, item) ==
  LET s1 == [s EXCEPT !.selectedItem = item,
                      !.onSelectCalls = Append(@, item)]
  IN IF closeOnSelect THEN closeDropdown(s1) ELSE s1

\* resolvedOnSelect that calls the context's onSelect as well as the list's
\* own (mutant)
resolvedOnSelect_CallsBoth(s, item) ==
  LET s0 == IF customOnSelect
            THEN [s EXCEPT !.customOnSelectCalls = Append(@, item)]
            ELSE s
      s1 == handleSelect(s0, item)
  IN IF closeOnSelect THEN closeDropdown(s1) ELSE s1

\* DropdownList's handler of a click on an option: selectHandler is the list's
\* own onSelect prop when given, the context's onSelect otherwise
resolvedOnSelect(s, item) ==
  LET s1 == IF customOnSelect
            THEN [s EXCEPT !.customOnSelectCalls = Append(@, item)]
            ELSE handleSelect(s, item)
  IN IF closeOnSelect THEN closeDropdown(s1) ELSE s1

handleSearchChange(s, query) ==
  [s EXCEPT !.searchQuery = query]

timerCallback(s, kind) ==
  IF kind = "enter" THEN enterTimerCallback(s) ELSE exitTimerCallback(s)

----------------------------------------------------------------------------
(* Actions *)

Op(name) == [op |-> name, isOpen |-> isOpen, searchQuery |-> searchQuery]

Log(name, s) ==
  /\ onOpenChangeCalls' = s.onOpenChangeCalls
  /\ onOpenChangeLast' =
        IF s.onOpenChangeCalls = <<>>
        THEN onOpenChangeLast
        ELSE <<s.onOpenChangeCalls[Len(s.onOpenChangeCalls)]>>
  /\ onSelectCalls' = s.onSelectCalls
  /\ customOnSelectCalls' = s.customOnSelectCalls
  /\ lastOp' = Op(name)

\* State setters take effect on a mounted component only
Commit(s) ==
  /\ isOpen' = s.isOpen
  /\ selectedItem' = s.selectedItem
  /\ searchQuery' = s.searchQuery
  /\ animationState' = s.animationState
  /\ skipExitAnimationRef' = s.skipExitAnimationRef
  /\ timers' = s.timers

RunWith(name, s, pre) ==
  /\ mounted
  /\ Len(s.timers) <= MaxTimers
  /\ Commit(s)
  /\ Log(name, s)
  /\ UNCHANGED <<mounted, props, placement, viewportHeight, triggerRect>>
  /\ UNCHANGED <<treeProps, keyboard, contextRead>>
  /\ PlacementEffects
  /\ TreeEffects(pre)

Run(name, s) == RunWith(name, s, <<>>)

TriggerClick ==
  /\ ~disabled
  /\ Run("triggerClick", toggleDropdown(Cur))

ToggleDropdown == Run("toggleDropdown", toggleDropdown(Cur))

CloseDropdown == Run("closeDropdown", closeDropdown(Cur))

MarkSuperseded(s) ==
  [s EXCEPT !.timers = [i \in 1..Len(@) |-> [@[i] EXCEPT !.superseded = TRUE]]]

CloseImmediate == Run("closeImmediate", MarkSuperseded(closeImmediate(Cur)))

SetSearchQuery == \E q \in Queries : Run("setSearchQuery", handleSearchChange(Cur, q))

OnSelect ==
  \E i \in 1..Len(items) : Run("onSelect", handleSelect(Cur, items[i]))

\* a click on an option of the list, which is on screen while the dropdown is open
OptionClick ==
  /\ isOpen
  /\ \E i \in 1..Len(items) : Run("optionClick", resolvedOnSelect(Cur, items[i]))

SetSelectedItem ==
  \E x \in {items[i] : i \in 1..Len(items)} \cup {NoItem} :
     Run("setSelectedItem", [Cur EXCEPT !.selectedItem = x])

SetIsOpen ==
  \E b \in BOOLEAN :
     Run("setIsOpen", [Cur EXCEPT !.isOpen = b])

SetDisabled ==
  /\ mounted
  /\ disabled' = ~disabled
  /\ lastOp' = Op("setDisabled")
  /\ onOpenChangeCalls' = <<>>
  /\ onOpenChangeLast' = onOpenChangeLast
  /\ onSelectCalls' = <<>>
  /\ customOnSelectCalls' = <<>>
  /\ requests' = <<>>
  /\ UNCHANGED <<mounted, closeOnSelect, items, hookState, timers, placementState>>
  /\ UNCHANGED <<treeProps, filteredItemsMemo, content, list, groupedItems, listening, keyboard,
                 contextRead>>

Unmount ==
  /\ mounted
  /\ mounted' = FALSE
  /\ lastOp' = Op("unmount")
  /\ onOpenChangeCalls' = <<>>
  /\ onOpenChangeLast' = onOpenChangeLast
  /\ onSelectCalls' = <<>>
  /\ customOnSelectCalls' = <<>>
  /\ UNCHANGED <<props, hookState, timers, placementState>>
  \* the cleanups of DropdownContent's and useClickOutside's effects run
  /\ content' = [content EXCEPT !.timer = <<>>]
  /\ list' = NoList
  /\ groupedItems' = NoGrouping
  /\ listening' = clickOutsideCleanup(listening, isOpen)
  /\ requests' = <<>>
  /\ UNCHANGED <<treeProps, filteredItemsMemo, keyboard, contextRead>>

Tick ==
  /\ timers # <<>> \/ content.timer # <<>>
  /\ \A i \in 1..Len(timers) : timers[i].remaining > 0
  /\ content.timer # <<0>>
  /\ timers' = [i \in 1..Len(timers) |-> [timers[i] EXCEPT !.remaining = @ - 1]]
  /\ content' = [content EXCEPT !.timer = [i \in 1..Len(@) |-> @[i] - 1]]
  /\ UNCHANGED <<mounted, props, hookState, observed, placementState>>
  /\ UNCHANGED <<treeProps, filteredItemsMemo, list, groupedItems, listening, requests, keyboard,
                 contextRead>>

Expired == {i \in 1..Len(timers) : timers[i].remaining = 0}

\* timers due together fire in the order they were started
FirstExpired == CHOOSE k \in Expired : \A j \in Expired : k <= j

RemoveAt(seq, i) == SubSeq(seq, 1, i - 1) \o SubSeq(seq, i + 1, Len(seq))

FireTimer ==
  /\ Expired # {}
  /\ UNCHANGED <<mounted, props, placement, viewportHeight, triggerRect>>
  /\ LET i == FirstExpired
         kind == timers[i].kind
         s == timerCallback([Cur EXCEPT !.timers = RemoveAt(timers, i)], kind)
     IN /\ UNCHANGED <<treeProps, keyboard, contextRead>>
        /\ IF mounted
           THEN Commit(s) /\ PlacementEffects /\ TreeEffects(<<>>)
           ELSE /\ timers' = s.timers
                /\ requests' = <<>>
                /\ UNCHANGED <<hookState, computedPlacement, aliasComputedPlacement,
                               filteredItemsMemo, content, list, groupedItems, listening>>
        /\ Log(IF kind = "enter" THEN "enterTimer" ELSE "exitTimer", s)

\* DropdownContent's exit timer fires: a render of DropdownContent and below
FireContentTimer ==
  /\ content.timer = <<0>>
  /\ content' = contentTimerCallback(content)
  /\ list' = listAfterRender(list, listShown(composition, content'), isOpen)
  /\ groupedItems' = listGrouping(list', filteredItemsMemo, sectionAccessor)
  /\ lastOp' = Op("contentTimer")
  /\ onOpenChangeCalls' = <<>>
  /\ onOpenChangeLast' = onOpenChangeLast
  /\ onSelectCalls' = <<>>
  /\ customOnSelectCalls' = <<>>
  /\ requests' = <<>>
  /\ UNCHANGED <<mounted, props, hookState, timers, placementState, treeProps,
                 filteredItemsMemo, listening, keyboard, contextRead>>

\* the caller re-renders the instance with another placement
SetPlacement ==
  /\ mounted
  /\ placement' \in Placements \ {placement}
  /\ lastOp' = Op("setPlacement")
  /\ onOpenChangeCalls' = <<>>
  /\ onOpenChangeLast' = onOpenChangeLast
  /\ onSelectCalls' = <<>>
  /\ customOnSelectCalls' = <<>>
  /\ requests' = <<>>
  /\ UNCHANGED <<mounted, props, hookState, timers, viewportHeight, triggerRect>>
  /\ UNCHANGED <<treeProps, filteredItemsMemo, content, list, groupedItems, listening, keyboard,
                 contextRead>>
  /\ PlacementEffects

\* the page scrolls or is laid out anew: the trigger is elsewhere in the viewport
MoveTrigger ==
  /\ mounted
  /\ triggerRect' \in Rects \ {triggerRect}
  /\ lastOp' = Op("moveTrigger")
  /\ onOpenChangeCalls' = <<>>
  /\ onOpenChangeLast' = onOpenChangeLast
  /\ onSelectCalls' = <<>>
  /\ customOnSelectCalls' = <<>>
  /\ requests' = <<>>
  /\ UNCHANGED <<mounted, props, hookState, timers, placement, viewportHeight,
                 computedPlacement, aliasComputedPlacement>>
  /\ UNCHANGED <<treeProps, filteredItemsMemo, content, list, groupedItems, listening, keyboard,
                 contextRead>>

\* A render of the root with other props: no handler runs, the effects do.
Rerender(name) ==
  /\ mounted
  /\ lastOp' = Op(name)
  /\ onOpenChangeCalls' = <<>>
  /\ onOpenChangeLast' = onOpenChangeLast
  /\ onSelectCalls' = <<>>
  /\ customOnSelectCalls' = <<>>
  /\ selectedItem' = useState(selectedItem, selectedItemProp')
  /\ UNCHANGED <<mounted, disabled, closeOnSelect, isOpen, searchQuery, animationState,
                 skipExitAnimationRef, timers, placement, viewportHeight, triggerRect,
                 composition, sectionAccessor, customOnSelect, keyboard, contextRead>>
  /\ PlacementEffects
  /\ TreeEffects(<<>>)

SetSelectedItemProp ==
  /\ selectedItemProp' \in
        ({NoItem} \cup {ItemList[i] : i \in 1..Len(ItemList)}) \ {selectedItemProp}
  /\ UNCHANGED <<items, filterItems, disableAnimation>>
  /\ Rerender("setSelectedItemProp")

SetItems ==
  /\ items' \in ItemLists \ {items}
  /\ UNCHANGED <<selectedItemProp, filterItems, disableAnimation>>
  /\ Rerender("setItems")

SetFilterItems ==
  /\ filterItems' \in {Undefined, "startsWith"} \ {filterItems}
  /\ UNCHANGED <<selectedItemProp, items, disableAnimation>>
  /\ Rerender("setFilterItems")

\* DropdownSearchable gives its DropdownContent no disableAnimation
SetDisableAnimation ==
  /\ composition = "content"
  /\ disableAnimation' = ~disableAnimation
  /\ UNCHANGED <<selectedItemProp, items, filterItems>>
  /\ Rerender("setDisableAnimation")

\* the state after the first render and its effects
InitHook ==
  /\ mounted = TRUE
  /\ items = ItemList
  /\ isOpen = FALSE
  /\ selectedItem = selectedItemProp
  /\ searchQuery = <<>>
  /\ animationState = "idle"
  /\ skipExitAnimationRef = FALSE
  /\ timers = <<>>
  /\ onOpenChangeCalls = <<>>
  /\ onOpenChangeLast = <<>>
  /\ onSelectCalls = <<>>
  /\ customOnSelectCalls = <<>>
  /\ lastOp = [op |-> "mount", isOpen |-> FALSE, searchQuery |-> <<>>]
  /\ computedPlacement =
        placementEffect(initialComputedPlacement(viaPlacement(placement)), FALSE,
                        viaPlacement(placement))
  /\ aliasComputedPlacement =
        placementEffect(initialComputedPlacement(viaAlias(placement)), FALSE,
                        viaAlias(placement))
  /\ filteredItemsMemo = filterWith(filterItems, items, <<>>)
  /\ content = NewContent(FALSE)
  /\ list = listAfterRender(NoList, listShown(composition, content), FALSE)
  /\ groupedItems = listGrouping(list, filteredItemsMemo, sectionAccessor)
  /\ listening = NoListeners
  /\ requests = <<>>

\* a root with children of the caller's own, default props, no keyboard hook in
\* use and no context read yet
InitBare ==
  /\ selectedItemProp = NoItem
  /\ filterItems = Undefined
  /\ composition = "custom"
  /\ sectionAccessor = <<>>
  /\ customOnSelect = FALSE
  /\ disableAnimation = FALSE
  /\ keyboard = NewKeyboard(<<>>)
  /\ contextRead = NotRead

\* an instance given the default placement ("bottom") and closeOnSelect (true)
Init ==
  /\ disabled \in BOOLEAN
  /\ closeOnSelect = TRUE
  /\ placement = "bottom"
  /\ viewportHeight \in {8}
  /\ triggerRect = NoRect
  /\ InitBare
  /\ InitHook

Next ==
  \/ TriggerClick
  \/ ToggleDropdown
  \/ CloseDropdown
  \/ CloseImmediate
  \/ SetSearchQuery
  \/ SetIsOpen
  \/ SetDisabled
  \/ Unmount
  \/ Tick
  \/ FireTimer

\* Opening, closing and searching; selection is left to SelectSpec below.
Spec == Init /\ [][Next]_vars

----------------------------------------------------------------------------
(* The enabled instance with the requests that open and close it, under the  *)
(* browser's scheduling: time passes, and a timer that is due fires (no      *)
(* handler ever clears one).                                                 *)

InitLive ==
  /\ disabled = FALSE
  /\ closeOnSelect \in BOOLEAN
  /\ placement = "bottom"
  /\ viewportHeight \in {8}
  /\ triggerRect = NoRect
  /\ InitBare
  /\ InitHook

NextLive ==
  \/ TriggerClick
  \/ ToggleDropdown
  \/ CloseDropdown
  \/ CloseImmediate
  \/ OnSelect
  \/ OptionClick
  \/ SetIsOpen
  \/ Unmount
  \/ Tick
  \/ FireTimer

LiveSpec == InitLive /\ [][NextLive]_vars /\ WF_vars(Tick) /\ WF_vars(FireTimer)

----------------------------------------------------------------------------
(* The enabled instance with a search typed and items selected, opened by    *)
(* toggleDropdown or setIsOpen and closed by the selection, closeImmediate   *)
(* or setIsOpen.                                                             *)

InitSelect ==
  /\ disabled = FALSE
  /\ closeOnSelect \in BOOLEAN
  /\ placement = "bottom"
  /\ viewportHeight \in {8}
  /\ triggerRect = NoRect
  /\ InitBare
  /\ InitHook

NextSelect ==
  \/ ToggleDropdown
  \/ CloseImmediate
  \/ SetIsOpen
  \/ SetSearchQuery
  \/ OnSelect
  \/ OptionClick
  \/ Tick
  \/ FireTimer

SelectSpec == InitSelect /\ [][NextSelect]_vars

----------------------------------------------------------------------------
(* The instance re-rendered with other values of selectedItem, items and     *)
(* filterItems, between searches and selections.                             *)

InitProps ==
  /\ disabled = FALSE
  /\ closeOnSelect = FALSE
  /\ placement = "bottom"
  /\ viewportHeight \in {8}
  /\ triggerRect = NoRect
  /\ selectedItemProp \in {NoItem} \cup {ItemList[i] : i \in 1..Len(ItemList)}
  /\ filterItems \in {Undefined, "startsWith"}
  /\ composition = "custom"
  /\ sectionAccessor = <<>>
  /\ customOnSelect = FALSE
  /\ disableAnimation = FALSE
  /\ keyboard = NewKeyboard(<<>>)
  /\ contextRead = NotRead
  /\ InitHook

NextProps ==
  \/ SetSelectedItemProp
  \/ SetItems
  \/ SetFilterItems
  \/ SetSearchQuery
  \/ OnSelect
  \/ SetSelectedItem
  \/ SetIsOpen

PropsSpec == InitProps /\ [][NextProps]_vars

----------------------------------------------------------------------------
(* The root with the library's components under it: DropdownSearchable, the  *)
(* caller's own DropdownContent around a DropdownList, or a DropdownList     *)
(* alone; an item may be selected from the start.                            *)

InitTree ==
  /\ disabled = FALSE
  /\ closeOnSelect = TRUE
  /\ placement = "bottom"
  /\ viewportHeight \in {8}
  /\ triggerRect = NoRect
  /\ selectedItemProp \in {NoItem, ItemList[2]}
  /\ filterItems = Undefined
  /\ composition \in {"searchable", "content", "list"}
  /\ sectionAccessor = <<>>
  /\ customOnSelect = FALSE
  /\ disableAnimation = FALSE
  /\ keyboard = NewKeyboard(<<>>)
  /\ contextRead = NotRead
  /\ InitHook

NextTree ==
  \/ ToggleDropdown
  \/ SetIsOpen
  \/ OnSelect
  \/ SetDisableAnimation
  \/ Tick
  \/ FireTimer
  \/ FireContentTimer

TreeSpec == InitTree /\ [][NextTree]_vars

----------------------------------------------------------------------------
(* Pointer events on the document.  The root's div carries dropdownRef for   *)
(* as long as the root is mounted; outside says whether the event's target   *)
(* is outside that element.                                                  *)

PointerOp(type, outside) ==
  CASE type = "mousedown" /\ outside -> "mousedownOutside"
    [] type = "mousedown" /\ ~outside -> "mousedownInside"
    [] type = "touchstart" /\ outside -> "touchstartOutside"
    [] OTHER -> "touchstartInside"

\* handleClickOutside that does nothing for a disabled instance (mutant)
handleClickOutside_NotWhenDisabled(attached, outside) ==
  attached /\ outside /\ ~disabled

\* whether the event reaches handleClickOutside and that calls closeDropdown
handleClickOutside(attached, outside) ==
  attached /\ outside

PointerDown ==
  \E type \in PointerEvents : \E outside \in BOOLEAN :
     IF handleClickOutside(listening[type] > 0, outside)
     THEN RunWith(PointerOp(type, outside), closeDropdown(Cur), << <<"closeDropdown">> >>)
     ELSE RunWith(PointerOp(type, outside), Cur, <<>>)

InitPointer ==
  /\ disabled = FALSE
  /\ closeOnSelect = TRUE
  /\ placement = "bottom"
  /\ viewportHeight \in {8}
  /\ triggerRect = NoRect
  /\ InitBare
  /\ InitHook

NextPointer ==
  \/ ToggleDropdown
  \/ SetIsOpen
  \/ CloseImmediate
  \/ SetSearchQuery
  \/ PointerDown
  \/ Tick
  \/ FireTimer

PointerSpec == InitPointer /\ [][NextPointer]_vars

----------------------------------------------------------------------------
(* A component that reads the context, either under the root's provider or   *)
(* with no provider above it, while the dropdown is opened and closed.       *)

ReadContext ==
  /\ mounted
  /\ \E inScope \in BOOLEAN :
        contextRead' = useDropdownContext(IF inScope THEN <<contextValue>> ELSE <<>>)
  /\ lastOp' = Op("useDropdownContext")
  /\ onOpenChangeCalls' = <<>>
  /\ onOpenChangeLast' = onOpenChangeLast
  /\ onSelectCalls' = <<>>
  /\ customOnSelectCalls' = <<>>
  /\ requests' = <<>>
  /\ UNCHANGED <<mounted, props, hookState, timers, placementState, treeProps,
                 filteredItemsMemo, content, list, groupedItems, listening, keyboard>>

InitContext ==
  /\ disabled = FALSE
  /\ closeOnSelect = TRUE
  /\ placement = "bottom"
  /\ viewportHeight \in {8}
  /\ triggerRect = NoRect
  /\ InitBare
  /\ InitHook

NextContext ==
  \/ ToggleDropdown
  \/ OnSelect
  \/ ReadContext
  \/ Tick
  \/ FireTimer

ContextSpec == InitContext /\ [][NextContext]_vars

----------------------------------------------------------------------------
(* The instance whose disabled prop changes while it is opened, closed and   *)
(* clicked: the trigger, the options of the list, the document.              *)

InitDisabled ==
  /\ disabled \in BOOLEAN
  /\ closeOnSelect \in BOOLEAN
  /\ placement = "bottom"
  /\ viewportHeight \in {8}
  /\ triggerRect = NoRect
  /\ InitBare
  /\ InitHook

NextDisabled ==
  \/ SetDisabled
  \/ TriggerClick
  \/ ToggleDropdown
  \/ CloseDropdown
  \/ CloseImmediate
  \/ OptionClick
  \/ PointerDown
  \/ Tick
  \/ FireTimer

DisabledSpec == InitDisabled /\ [][NextDisabled]_vars

-----------------------------------------------------------------------------
(* The enabled instance driven only through its own operations: the toggle,   *)
(* closeDropdown, closeImmediate, item selections and the timers.  isOpen is  *)
(* never set through the context's setIsOpen.                                 *)

InitCallback ==
  /\ disabled = FALSE
  /\ closeOnSelect \in BOOLEAN
  /\ placement = "bottom"
  /\ viewportHeight \in {8}
  /\ triggerRect = NoRect
  /\ InitBare
  /\ InitHook

NextCallback ==
  \/ ToggleDropdown
  \/ CloseDropdown
  \/ CloseImmediate
  \/ OnSelect
  \/ OptionClick
  \/ Tick
  \/ FireTimer

CallbackSpec == InitCallback /\ [][NextCallback]_vars

-----------------------------------------------------------------------------
(* A root with a DropdownList as its child, the list with or without an       *)
(* onSelect prop of its own; options are clicked, and items are also selected *)
(* through the context's onSelect.                                            *)

InitListSelect ==
  /\ disabled = FALSE
  /\ closeOnSelect \in BOOLEAN
  /\ placement = "bottom"
  /\ viewportHeight \in {8}
  /\ triggerRect = NoRect
  /\ selectedItemProp \in {NoItem, ItemList[2]}
  /\ filterItems = Undefined
  /\ composition = "list"
  /\ sectionAccessor = <<>>
  /\ customOnSelect \in BOOLEAN
  /\ disableAnimation = FALSE
  /\ keyboard = NewKeyboard(<<>>)
  /\ contextRead = NotRead
  /\ InitHook

NextListSelect ==
  \/ ToggleDropdown
  \/ CloseImmediate
  \/ OnSelect
  \/ OptionClick
  \/ Tick
  \/ FireTimer

ListSelectSpec == InitListSelect /\ [][NextListSelect]_vars

----------------------------------------------------------------------------
(* useKeyboardNavigation on its own, over every list of at most              *)
(* MaxKeyboardItems items out of three.  Its onSelect and closeDropdown      *)
(* parameters are recorded in onSelectCalls and requests.                    *)

KeyDown(key) ==
  /\ mounted
  /\ keyboard' = handleKeyDown(keyboard, key)
  /\ onSelectCalls' = keyDownSelects(keyboard, key)
  /\ customOnSelectCalls' = <<>>
  /\ requests' = keyDownRequests(keyboard, key)
  /\ onOpenChangeCalls' = <<>>
  /\ onOpenChangeLast' = onOpenChangeLast
  /\ lastOp' = Op(key)
  /\ UNCHANGED <<mounted, props, hookState, timers, placementState, treeProps,
                 filteredItemsMemo, content, list, groupedItems, listening, contextRead>>

ResetFocus ==
  /\ mounted
  /\ keyboard' = resetFocus(keyboard)
  /\ onSelectCalls' = <<>>
  /\ customOnSelectCalls' = <<>>
  /\ requests' = <<>>
  /\ onOpenChangeCalls' = <<>>
  /\ onOpenChangeLast' = onOpenChangeLast
  /\ lastOp' = Op("resetFocus")
  /\ UNCHANGED <<mounted, props, hookState, timers, placementState, treeProps,
                 filteredItemsMemo, content, list, groupedItems, listening, contextRead>>

KeyboardItems == { <<"A", "b">>, <<"b", "c">>, <<"a">> }

InitKeyboard ==
  /\ disabled = FALSE
  /\ closeOnSelect = TRUE
  /\ placement = "bottom"
  /\ viewportHeight \in {8}
  /\ triggerRect = NoRect
  /\ selectedItemProp = NoItem
  /\ filterItems = Undefined
  /\ composition = "custom"
  /\ sectionAccessor = <<>>
  /\ customOnSelect = FALSE
  /\ disableAnimation = FALSE
  /\ keyboard \in {NewKeyboard(its) : its \in SeqsUpTo(KeyboardItems, MaxKeyboardItems)}
  /\ contextRead = NotRead
  /\ InitHook

NextKeyboard ==
  \/ \E key \in Keys : KeyDown(key)
  \/ ResetFocus

KeyboardSpec == InitKeyboard /\ [][NextKeyboard]_vars

\* the component using the hook renders again with another items array: the
\* handlers of the new render read the new array, the ref and the state stay
SetKeyboardItems ==
  /\ mounted
  /\ \E its \in SeqsUpTo(KeyboardItems, MaxKeyboardItems) :
        /\ its # keyboard.items
        /\ keyboard' = [keyboard EXCEPT !.items = its]
  /\ onSelectCalls' = <<>>
  /\ customOnSelectCalls' = <<>>
  /\ requests' = <<>>
  /\ onOpenChangeCalls' = <<>>
  /\ onOpenChangeLast' = onOpenChangeLast
  /\ lastOp' = Op("setItems")
  /\ UNCHANGED <<mounted, props, hookState, timers, placementState, treeProps,
                 filteredItemsMemo, content, list, groupedItems, listening, contextRead>>

NextKeyboardItems ==
  \/ \E key \in Keys : KeyDown(key)
  \/ ResetFocus
  \/ SetKeyboardItems

KeyboardItemsSpec == InitKeyboard /\ [][NextKeyboardItems]_vars

----------------------------------------------------------------------------
(* groupItemsBySection on its own: every list of at most MaxGroupItems items *)
(* out of three, with no section accessor or with any accessor that gives    *)
(* each item no section or one of three section metas, two of which have the *)
(* same key.  The result is kept in groupedItems.                            *)

GroupItems == { <<"a">>, <<"b">>, <<"c">> }

SectionMetas ==
  { [key |-> "x", label |-> "X"], [key |-> "y", label |-> "Y"],
    [key |-> "x", label |-> "Z"] }

SectionAccessors ==
  {<<>>} \cup {<<f>> : f \in [GroupItems -> {NoSection} \cup {<<m>> : m \in SectionMetas}]}

InitGroup ==
  /\ mounted = TRUE
  /\ disabled = FALSE
  /\ closeOnSelect = TRUE
  /\ items \in SeqsUpTo(GroupItems, MaxGroupItems)
  /\ searchQuery = <<>>
  /\ isOpen = TRUE
  /\ selectedItem = NoItem
  /\ animationState = "idle"
  /\ skipExitAnimationRef = FALSE
  /\ timers = <<>>
  /\ onOpenChangeCalls = <<>>
  /\ onOpenChangeLast = <<>>
  /\ onSelectCalls = <<>>
  /\ customOnSelectCalls = <<>>
  /\ lastOp = [op |-> "mount", isOpen |-> FALSE, searchQuery |-> <<>>]
  /\ placement = "bottom"
  /\ viewportHeight \in {8}
  /\ triggerRect = NoRect
  /\ computedPlacement = "bottom"
  /\ aliasComputedPlacement = "bottom"
  /\ selectedItemProp = NoItem
  /\ filterItems = Undefined
  /\ composition = "list"
  /\ sectionAccessor \in SectionAccessors
  /\ customOnSelect = FALSE
  /\ disableAnimation = FALSE
  /\ filteredItemsMemo = items
  /\ content = NewContent(FALSE)
  /\ list = [mounted |-> TRUE, prevIsOpenRef |-> TRUE]
  /\ groupedItems = NoGrouping
  /\ listening = addEventListeners(NoListeners)
  /\ requests = <<>>
  /\ keyboard = NewKeyboard(<<>>)
  /\ contextRead = NotRead

ApplyGrouping ==
  /\ lastOp.op = "mount"
  /\ groupedItems' = groupItemsBySection(items, sectionAccessor)
  /\ lastOp' = [op |-> "groupItemsBySection", isOpen |-> FALSE, searchQuery |-> <<>>]
  /\ UNCHANGED <<mounted, props, hookState, timers, onOpenChangeCalls, onOpenChangeLast, onSelectCalls,
                 customOnSelectCalls, placementState, treeProps, filteredItemsMemo,
                 content, list, listening, requests, keyboard, contextRead>>

GroupSpec == InitGroup /\ [][ApplyGrouping]_vars

----------------------------------------------------------------------------
(* defaultFilter on its own: every list of at most MaxFilterItems items out  *)
(* of three display texts, every query of at most MaxQueryLen characters.    *)
(* The result is kept in filteredItemsMemo.                                  *)

FilterTexts == { <<"A", "b">>, <<"b", "c">>, <<"a", " ", "B">> }

FilterChars == {" ", "a", "B"}

InitFilter ==
  /\ mounted = TRUE
  /\ disabled = FALSE
  /\ closeOnSelect = TRUE
  /\ items \in SeqsUpTo(FilterTexts, MaxFilterItems)
  /\ searchQuery \in SeqsUpTo(FilterChars, MaxQueryLen)
  /\ isOpen = TRUE
  /\ selectedItem = NoItem
  /\ animationState = "idle"
  /\ skipExitAnimationRef = FALSE
  /\ timers = <<>>
  /\ onOpenChangeCalls = <<>>
  /\ onOpenChangeLast = <<>>
  /\ onSelectCalls = <<>>
  /\ customOnSelectCalls = <<>>
  /\ lastOp = [op |-> "mount", isOpen |-> FALSE, searchQuery |-> <<>>]
  /\ placement = "bottom"
  /\ viewportHeight \in {8}
  /\ triggerRect = NoRect
  /\ computedPlacement = "bottom"
  /\ aliasComputedPlacement = "bottom"
  /\ filteredItemsMemo = <<>>
  /\ content = NewContent(FALSE)
  /\ list = NoList
  /\ groupedItems = NoGrouping
  /\ listening = addEventListeners(NoListeners)
  /\ requests = <<>>
  /\ InitBare

ApplyFilter ==
  /\ lastOp.op = "mount"
  /\ filteredItemsMemo' = defaultFilter(items, searchQuery)
  /\ lastOp' = [op |-> "defaultFilter", isOpen |-> FALSE, searchQuery |-> <<>>]
  /\ UNCHANGED <<mounted, props, hookState, timers, onOpenChangeCalls, onOpenChangeLast, onSelectCalls, customOnSelectCalls,
                 placementState, treeProps, content, list, groupedItems, listening, requests,
                 keyboard, contextRead>>

FilterSpec == InitFilter /\ [][ApplyFilter]_vars

----------------------------------------------------------------------------
(* The instance under every placement, with the trigger moving in the        *)
(* viewport.  Search and selection, which read and write neither isOpen nor  *)
(* the placement other than through closeDropdown, are left to Spec.         *)

InitPlacement ==
  /\ disabled = FALSE
  /\ closeOnSelect = TRUE
  /\ placement \in Placements
  /\ viewportHeight \in {8}
  /\ triggerRect \in Rects
  /\ InitBare
  /\ InitHook

NextPlacement ==
  \/ TriggerClick
  \/ ToggleDropdown
  \/ CloseDropdown
  \/ CloseImmediate
  \/ SetIsOpen
  \/ SetPlacement
  \/ MoveTrigger
  \/ Unmount
  \/ Tick
  \/ FireTimer

PlacementSpec == InitPlacement /\ [][NextPlacement]_vars

----------------------------------------------------------------------------
(* computePlacement on its own: every requested placement, rectangles from   *)
(* above the viewport to below it, and two viewport heights.  The result is  *)
(* kept in computedPlacement.                                                *)

InitResolve ==
  /\ disabled = FALSE
  /\ closeOnSelect = TRUE
  /\ placement \in Placements
  /\ viewportHeight \in Viewports
  /\ triggerRect \in FnRects
  /\ InitBare
  /\ InitHook

Resolve ==
  /\ lastOp.op = "mount"
  /\ computedPlacement' = computePlacement(triggerRect, placement)
  /\ lastOp' = Op("computePlacement")
  /\ UNCHANGED <<mounted, props, hookState, timers, onOpenChangeCalls, onOpenChangeLast, onSelectCalls, customOnSelectCalls,
                 placement, viewportHeight, triggerRect, aliasComputedPlacement>>
  /\ UNCHANGED <<treeProps, treeState, keyboard, contextRead>>

ResolveSpec == InitResolve /\ [][Resolve]_vars

----------------------------------------------------------------------------
(* Properties *)

\* the step ran the handler or timer callback called name
Ran(name) == lastOp'.op = name /\ ~Tick

ExitPending == \E i \in 1..Len(timers) : timers[i].kind = "exit"

\* C1: once a close has completed (the exit timer has fired, or closeImmediate
\* has run) the search query is empty and filteredItems is the whole item list,
\* and this is still so when the dropdown is opened again right after.
C1_SearchResetOnClose ==
  [][ /\ (mounted /\ (Ran("exitTimer") \/ Ran("closeImmediate"))) =>
            searchQuery' = <<>> /\ filteredItems' = items'
      /\ (/\ mounted
          /\ lastOp.op \in {"exitTimer", "closeImmediate"}
          /\ ~disabled
          /\ (Ran("toggleDropdown") \/ Ran("triggerClick"))) =>
            isOpen' /\ searchQuery' = <<>> /\ filteredItems' = items'
    ]_vars

\* C1 witness: the exit timer has closed a dropdown whose query was "a", and
\* the query is empty
C1_Witness ==
  /\ mounted
  /\ lastOp = [op |-> "exitTimer", isOpen |-> TRUE, searchQuery |-> <<"a">>]
  /\ ~isOpen
  /\ searchQuery = <<>>
  /\ filteredItems = items

\* C2 (as claimed): whenever the dropdown is closed, the search query is empty
C2_ClosedImpliesEmptyQuery == ~isOpen => searchQuery = <<>>

\* C3: toggleDropdown on a closed, enabled dropdown opens it (isOpen, entering,
\* one onOpenChange(true), the enter timer started); when that timer fires with
\* nothing else having happened since, animationState is idle and isOpen holds.
C3_OpenTransition ==
  [][ /\ (~isOpen /\ ~disabled /\ Ran("toggleDropdown")) =>
            /\ isOpen'
            /\ animationState' = "entering"
            /\ onOpenChangeCalls' = <<TRUE>>
            /\ timers' = Append(timers, NewTimer("enter", EnterTicks))
      /\ (/\ mounted
          /\ lastOp.op = "toggleDropdown"
          /\ isOpen /\ animationState = "entering"
          /\ Len(timers) = 1 /\ timers[1].kind = "enter"
          /\ Ran("enterTimer")) =>
            /\ animationState' = "idle"
            /\ isOpen'
            /\ timers' = <<>>
    ]_vars

\* C3 witness: the enter timer has fired and left the dropdown open and idle
C3_Witness ==
  /\ mounted
  /\ lastOp.op = "enterTimer"
  /\ isOpen
  /\ animationState = "idle"
  /\ timers = <<>>

C5_CloseTransition ==
  [][ /\ (mounted /\ isOpen /\ animationState = "idle" /\ Ran("closeDropdown")) =>
            /\ animationState' = "exiting"
            /\ isOpen'
            /\ onOpenChangeCalls' = <<>>
            /\ timers' = Append(timers, NewTimer("exit", ExitTicks))
      /\ (mounted /\ Ran("exitTimer")) =>
            /\ ~isOpen'
            /\ searchQuery' = <<>>
            /\ animationState' = "idle"
            /\ onOpenChangeCalls' = <<FALSE>>
    ]_vars

\* C6 (as claimed): closeDropdown while already closing (exiting, exit timer
\* pending) or already closed changes no state, starts no timer, calls nothing.
C6_CloseReentrant ==
  [][ (/\ mounted
       /\ (~isOpen \/ (animationState = "exiting" /\ ExitPending))
       /\ Ran("closeDropdown")) =>
         /\ UNCHANGED <<hookState, timers>>
         /\ onOpenChangeCalls' = <<>>
    ]_vars

\* C7 (as claimed): once a close was requested, the enter timer changes no
\* state: animationState stays exiting until the exit timer fires.
C7_EnterTimerCancelledByClose ==
  [][ (mounted /\ isOpen /\ animationState = "exiting" /\ ExitPending /\ Ran("enterTimer")) =>
         animationState' = "exiting"
    ]_vars

\* C8 (as claimed): after closeImmediate and a reopen by toggleDropdown, with no
\* close requested since, an exit timer that was pending at the closeImmediate
\* fires no transition.
C8_ImmediateSupersedesExit ==
  [][ (/\ mounted
       /\ lastOp.op = "toggleDropdown"
       /\ isOpen /\ animationState = "entering"
       /\ Expired # {}
       /\ timers[FirstExpired].kind = "exit"
       /\ timers[FirstExpired].superseded
       /\ Ran("exitTimer")) =>
         /\ isOpen'
         /\ searchQuery' = searchQuery
         /\ onOpenChangeCalls' = <<>>
    ]_vars

\* C9 (as claimed): after the unmount no timer callback calls onOpenChange
C9_NoCallbackAfterUnmount == ~mounted => onOpenChangeCalls = <<>>

\* C10: closeImmediate in any open state closes in that one step: isOpen false,
\* query empty, animationState idle (never exiting), one onOpenChange(false),
\* and no timer started.
C10_CloseImmediate ==
  [][ (mounted /\ isOpen /\ Ran("closeImmediate")) =>
         /\ ~isOpen'
         /\ searchQuery' = <<>>
         /\ animationState' = "idle"
         /\ onOpenChangeCalls' = <<FALSE>>
         /\ Len(timers') = Len(timers)
    ]_vars

\* C10 witness: closeImmediate has run while closing (the exit timer is still
\* pending) with a query typed
C10_Witness ==
  /\ mounted
  /\ lastOp = [op |-> "closeImmediate", isOpen |-> TRUE, searchQuery |-> <<"a">>]
  /\ ExitPending
  /\ ~isOpen
  /\ searchQuery = <<>>
  /\ animationState = "idle"
  /\ onOpenChangeCalls = <<FALSE>>

\* C11: toggleDropdown opens exactly when isOpen is false, and is otherwise a
\* close request: run while isOpen is true, in any animationState, it reports
\* no opening and schedules no enter timer, and either the exit animation
\* starts or (after closeImmediate) the dropdown is closed at once; run while
\* isOpen is false it opens, or does nothing when disabled.
C11_ToggleOpensIffClosed ==
  [][ Ran("toggleDropdown") =>
        /\ (isOpen /\ ~skipExitAnimationRef) =>
              /\ isOpen'
              /\ animationState' = "exiting"
              /\ timers' = Append(timers, NewTimer("exit", ExitTicks))
              /\ onOpenChangeCalls' = <<>>
        /\ (isOpen /\ skipExitAnimationRef) =>
              /\ ~isOpen'
              /\ animationState' = "idle"
              /\ timers' = timers
              /\ onOpenChangeCalls' = <<FALSE>>
        /\ (~isOpen /\ ~disabled) =>
              /\ isOpen'
              /\ animationState' = "entering"
              /\ timers' = Append(timers, NewTimer("enter", EnterTicks))
              /\ onOpenChangeCalls' = <<TRUE>>
        /\ (~isOpen /\ disabled) =>
              /\ UNCHANGED <<hookState, timers>>
              /\ onOpenChangeCalls' = <<>>
    ]_vars

\* toggleDropdown has run while the dropdown was still opening
C11_Witness ==
  /\ mounted
  /\ lastOp.op = "toggleDropdown"
  /\ lastOp.isOpen
  /\ isOpen
  /\ animationState = "exiting"
  /\ Len(timers) = 2
  /\ timers[1].kind = "enter"
  /\ timers[2] = NewTimer("exit", ExitTicks)
  /\ onOpenChangeCalls = <<>>

\* C12: every change of isOpen, whichever context mutator causes it, comes with
\* exactly one onOpenChange call, which carries the new value.
C12_OnOpenChangeOnEveryChange ==
  [][ (mounted /\ isOpen' # isOpen) => onOpenChangeCalls' = <<isOpen'>> ]_vars

Selected == Ran("onSelect") \/ Ran("optionClick")

\* C13: while the dropdown is open, selecting any item (through the context's
\* onSelect or by a click on an option of the list) makes it the selectedItem
\* and calls the caller's onSelect once, with that item; with closeOnSelect the
\* selection also starts the close (the exit animation with its timer pending,
\* or the immediate close after closeImmediate), and the exit timer's firing
\* ends it with isOpen false and the search query empty.
C13_Selection ==
  [][ /\ (isOpen /\ Selected) =>
            \A i \in 1..Len(items) :
               /\ handleSelect(Cur, items[i]).selectedItem = items[i]
               /\ handleSelect(Cur, items[i]).onSelectCalls = <<items[i]>>
               /\ resolvedOnSelect(Cur, items[i]).selectedItem = items[i]
               /\ resolvedOnSelect(Cur, items[i]).onSelectCalls = <<items[i]>>
      /\ (isOpen /\ Selected) =>
            /\ onSelectCalls' = <<selectedItem'>>
            /\ \E i \in 1..Len(items) : selectedItem' = items[i]
            /\ closeOnSelect =>
                  \/ isOpen' /\ animationState' = "exiting" /\ ExitPending'
                  \/ /\ skipExitAnimationRef
                     /\ ~isOpen'
                     /\ searchQuery' = <<>>
                     /\ animationState' = "idle"
      /\ (mounted /\ Ran("exitTimer")) => ~isOpen' /\ searchQuery' = <<>>
    ]_vars

\* the second item has been selected by a click while the dropdown was open with
\* a query typed, and the close is under way
C13_Witness ==
  /\ mounted
  /\ closeOnSelect
  /\ lastOp = [op |-> "optionClick", isOpen |-> TRUE, searchQuery |-> <<"a">>]
  /\ selectedItem = ItemList[2]
  /\ onSelectCalls = <<ItemList[2]>>
  /\ isOpen
  /\ animationState = "exiting"
  /\ ExitPending

\* C14: with closeOnSelect false a selection (the context's onSelect, or a click
\* on an option) sets selectedItem and calls onSelect with it, and changes
\* nothing else: isOpen, animationState and searchQuery stay as they are, no
\* timer is started and onOpenChange is not called.
C14_SelectionKeepsOpen ==
  [][ (~closeOnSelect /\ Selected) =>
        /\ onSelectCalls' = <<selectedItem'>>
        /\ \E i \in 1..Len(items) : selectedItem' = items[i]
        /\ UNCHANGED <<isOpen, animationState, searchQuery, timers, skipExitAnimationRef>>
        /\ onOpenChangeCalls' = <<>>
    ]_vars

\* with closeOnSelect false the first item has been clicked in an open dropdown
\* whose enter animation is still running, and the dropdown is as it was
C14_Witness ==
  /\ mounted
  /\ ~closeOnSelect
  /\ lastOp = [op |-> "optionClick", isOpen |-> TRUE, searchQuery |-> <<"a">>]
  /\ selectedItem = ItemList[1]
  /\ onSelectCalls = <<ItemList[1]>>
  /\ isOpen
  /\ animationState = "entering"
  /\ searchQuery = <<"a">>
  /\ Len(timers) = 1
  /\ timers[1].kind = "enter"

\* C16: whenever isOpen is false, animationState is idle.
C16_ClosedImpliesIdle ==
  mounted => (~isOpen => animationState = "idle")

\* the last step was a close request made while isOpen was true: closeDropdown
\* (also what Escape and a click outside call), toggleDropdown, a click on the
\* trigger, or a selection with closeOnSelect
CloseRequested ==
  /\ mounted
  /\ lastOp.isOpen
  /\ \/ lastOp.op \in {"closeDropdown", "toggleDropdown", "triggerClick"}
     \/ lastOp.op \in {"onSelect", "optionClick"} /\ closeOnSelect

Closed == ~isOpen /\ animationState = "idle"

\* C15: when pending timers eventually fire, a close request made in an open
\* state is followed by a state with isOpen false and animationState idle
\* (unless the instance is unmounted first), and the instance stays closed and
\* idle as long as nothing happens but the passing of time and timers firing.
C15_EventualClose ==
  /\ CloseRequested ~> (Closed \/ ~mounted)
  /\ [][ (mounted /\ Closed /\ (Tick \/ FireTimer)) => Closed' ]_vars

\* a close request has been made in an open state and the exit animation runs
C15_Witness ==
  /\ CloseRequested
  /\ lastOp.op = "closeDropdown"
  /\ isOpen
  /\ animationState = "exiting"
  /\ ExitPending

\* C17: computedPlacement is always top or bottom, never auto, whatever
\* placement is asked for; when top or bottom is asked for, computedPlacement
\* is the placement asked for.
C17_ComputedPlacementResolved ==
  /\ computedPlacement \in {"top", "bottom"}
  /\ placement \in {"top", "bottom"} => computedPlacement = placement

\* auto is asked for, the dropdown is open below mid-viewport and opens upwards
C17_Witness ==
  /\ mounted
  /\ placement = "auto"
  /\ isOpen
  /\ triggerRect = [top |-> 5, height |-> 2]
  /\ computedPlacement = "top"

\* C18: computePlacement returns the requested placement when it is top or
\* bottom; for auto it returns bottom when there is no rectangle, top when the
\* rectangle's vertical centre, top + height/2, is strictly greater than half
\* the viewport height, and bottom otherwise (a centre exactly at half
\* included).
C18_PlacementResolution ==
  [][ Ran("computePlacement") =>
        /\ placement \in {"top", "bottom"} => computedPlacement' = placement
        /\ (placement = "auto" /\ triggerRect = NoRect) => computedPlacement' = "bottom"
        /\ (placement = "auto" /\ triggerRect # NoRect) =>
              LET centreTimes2 == 2 * triggerRect.top + triggerRect.height
              IN /\ centreTimes2 > viewportHeight => computedPlacement' = "top"
                 /\ centreTimes2 <= viewportHeight => computedPlacement' = "bottom"
    ]_vars

\* auto has been resolved for a trigger centred exactly at mid-viewport
C18_Witness ==
  /\ lastOp.op = "computePlacement"
  /\ placement = "auto"
  /\ triggerRect = [top |-> 3, height |-> 2]
  /\ viewportHeight = 8
  /\ computedPlacement = "bottom"

\* C19: with placement auto, computedPlacement is resolved from the trigger's
\* rectangle in the step that takes isOpen from false to true, and no step that
\* leaves isOpen true changes it; in particular a move of the trigger in the
\* viewport changes computedPlacement in no state.
C19_ResolvedOnOpenOnly ==
  [][ /\ (mounted /\ placement = "auto" /\ placement' = "auto" /\ ~isOpen /\ isOpen') =>
            computedPlacement' = computePlacement(triggerRect, "auto")
      /\ (placement = "auto" /\ placement' = "auto" /\ isOpen /\ isOpen') =>
            computedPlacement' = computedPlacement
      /\ triggerRect' # triggerRect => computedPlacement' = computedPlacement
    ]_vars

\* the dropdown opened downwards, the trigger has since moved below mid-viewport,
\* and the enter timer has fired: the panel still opens downwards
C19_Witness ==
  /\ mounted
  /\ placement = "auto"
  /\ isOpen
  /\ lastOp.op = "enterTimer"
  /\ lastOp.isOpen
  /\ triggerRect = [top |-> 5, height |-> 2]
  /\ computedPlacement = "bottom"

\* C20: the instance given dropdownPlacement = v and the instance given
\* placement = v, put through the same operations, have the same
\* computedPlacement in every state, for v any of bottom, top and auto.
C20_AliasMapsIdentically ==
  computedPlacement = aliasComputedPlacement

\* both instances were given top, then auto, and have opened with the trigger
\* below mid-viewport
C20_Witness ==
  /\ mounted
  /\ placement = "auto"
  /\ isOpen
  /\ lastOp.op = "toggleDropdown"
  /\ ~lastOp.isOpen
  /\ triggerRect = [top |-> 5, height |-> 2]
  /\ computedPlacement = "top"
  /\ aliasComputedPlacement = "top"

\* C21: the selectedItem prop seeds the selectedItem state at construction
\* only: a render with another value of the prop leaves the state as it is,
\* and the state changes in no step other than a selection or setSelectedItem.
C21_SeedOnce ==
  [][ /\ lastOp.op = "mount" => selectedItem = selectedItemProp
      /\ Ran("setSelectedItemProp") =>
            selectedItemProp' # selectedItemProp /\ selectedItem' = selectedItem
      /\ selectedItem' # selectedItem =>
            Ran("onSelect") \/ Ran("optionClick") \/ Ran("setSelectedItem")
    ]_vars

\* seeded with the first item, the instance has been rendered with the second:
\* the state is still the first
C21_Witness ==
  /\ mounted
  /\ lastOp.op = "setSelectedItemProp"
  /\ selectedItemProp = ItemList[2]
  /\ selectedItem = ItemList[1]

Lower(c) == CASE c = "A" -> "a" [] c = "B" -> "b" [] c = "C" -> "c" [] OTHER -> c

Blank(query) == \A i \in 1..Len(query) : query[i] = " "

\* text contains, from some position on and letter case apart, what is left of
\* query when the spaces at its two ends are taken off
Matches(text, query) ==
  \E a \in 1..Len(query) : \E b \in a..Len(query) :
     /\ query[a] # " " /\ query[b] # " "
     /\ \A i \in 1..Len(query) : (i < a \/ i > b) => query[i] = " "
     /\ \E start \in 0..(Len(text) - (b - a + 1)) :
           \A k \in 1..(b - a + 1) : Lower(text[start + k]) = Lower(query[a + k - 1])

\* result is the matching items of its, each once, in the order of its
IsMatchingSubsequence(result, its, query) ==
  LET M == {i \in 1..Len(its) : Matches(getItemDisplay(its[i]), query)}
  IN /\ Len(result) = Cardinality(M)
     /\ \E f \in [1..Len(result) -> M] :
           /\ \A k \in 1..Len(result) : result[k] = its[f[k]]
           /\ \A k \in 1..(Len(result) - 1) : f[k] < f[k + 1]

\* C22: the default filter returns the item list unchanged when the query is
\* empty once trimmed, and otherwise exactly the items whose display text, in
\* lower case, contains the trimmed query in lower case, in their original
\* relative order.
C22_DefaultFilter ==
  [][ Ran("defaultFilter") =>
        /\ Blank(searchQuery) => filteredItemsMemo' = items
        /\ ~Blank(searchQuery) =>
              IsMatchingSubsequence(filteredItemsMemo', items, searchQuery)
    ]_vars

\* of two items the second alone contains the query, which has a space after it
\* and differs from the text in letter case
C22_Witness ==
  /\ lastOp.op = "defaultFilter"
  /\ items = << <<"b", "c">>, <<"A", "b">> >>
  /\ searchQuery = <<"a", " ">>
  /\ filteredItemsMemo = << <<"A", "b">> >>

\* C24: whatever the item list and whatever arrow keys were pressed since the
\* cursor was at -1, focusedIndex is at least -1 and at most the last index of
\* the list; on an empty list it is -1.
C24_CursorWithinBounds ==
  /\ keyboard.focusedIndex >= -1
  /\ keyboard.focusedIndex <= Len(keyboard.items) - 1

\* C25: Enter calls onSelect once, with the item under the cursor, when the
\* cursor is on an item, and calls nothing otherwise; on three items, two
\* ArrowDown and Enter select the second item (items[1]).
C25_EnterSelectsFocused ==
  [][ Ran("Enter") =>
        LET i == keyboard.focusedIndex
        IN /\ (0 <= i /\ i < Len(keyboard.items)) =>
                 onSelectCalls' = <<keyboard.items[i + 1]>>
           /\ ~(0 <= i /\ i < Len(keyboard.items)) => onSelectCalls' = <<>>
           /\ keyboard' = keyboard
    ]_vars

\* three different items, the cursor on the second after two ArrowDown, Enter
C25_Witness ==
  /\ lastOp.op = "Enter"
  /\ keyboard.items = << <<"A", "b">>, <<"b", "c">>, <<"a">> >>
  /\ keyboard.focusedIndex = 1
  /\ onSelectCalls = << <<"b", "c">> >>

PointerOutside == Ran("mousedownOutside") \/ Ran("touchstartOutside")

PointerInside == Ran("mousedownInside") \/ Ran("touchstartInside")

CloseDropdownCalls == {i \in 1..Len(requests') : requests'[i] = <<"closeDropdown">>}

\* C26: while the dropdown is open, a mousedown or touchstart on a target
\* outside the root element calls closeDropdown (once), and one on a target
\* inside it does not; while the dropdown is closed, no pointer event calls
\* closeDropdown.
C26_OutsideInteraction ==
  [][ /\ (PointerOutside /\ isOpen) =>
           /\ Cardinality(CloseDropdownCalls) = 1
           /\ animationState' = "exiting" \/ ~isOpen'
      /\ (PointerInside \/ (PointerOutside /\ ~isOpen)) =>
           /\ CloseDropdownCalls = {}
           /\ <<isOpen', animationState', timers'>> = <<isOpen, animationState, timers>>
    ]_vars

\* a touch outside the root of an open dropdown has called closeDropdown
C26_Witness ==
  /\ lastOp.op = "touchstartOutside"
  /\ lastOp.isOpen
  /\ requests = << <<"closeDropdown">> >>
  /\ animationState = "exiting"

\* C27: a read of the context with no provider in scope throws an error whose
\* message says that useDropdownContext must be used within a DropdownProvider;
\* a read with a provider in scope returns the provider's value.
C27_ContextGuard ==
  /\ contextRead.outcome = "threw" =>
        includes(contextRead.message,
                 <<"useDropdownContext", "must", "be", "used", "within", "a",
                   "DropdownProvider">>)
  /\ (contextRead.outcome = "returned" /\ lastOp.op = "useDropdownContext") =>
        contextRead.value = <<contextValue>>

Opens == mounted' /\ ~isOpen /\ isOpen'

\* C28: whenever isOpen goes from false to true in an instance that renders a
\* search input, a focus request on that input is issued right after the
\* render in which the dropdown opened.
C28_FocusOnOpen ==
  [][ (Opens /\ hasSearch(composition)) =>
        \E i \in 1..Len(requests') : requests'[i] = <<"focus">>
    ]_vars

ScrollCalls == {i \in 1..Len(requests') : requests'[i][1] = "scrollIntoView"}

\* C29: whenever the dropdown goes from closed to open with a selected item
\* that is in the rendered list, scrollIntoView is called once, for that item;
\* it is not called again in any step in which the dropdown stays open.
C29_ScrollToSelection ==
  [][ /\ ( /\ Opens
           /\ selectedItem' # NoItem
           /\ list'.mounted
           /\ \E i \in 1..Len(filteredItemsMemo') : filteredItemsMemo'[i] = selectedItem' ) =>
             /\ Cardinality(ScrollCalls) = 1
             /\ \A i \in ScrollCalls :
                   requests'[i] = <<"scrollIntoView", getItemKey(selectedItem')>>
      /\ (~Tick /\ isOpen /\ isOpen') => ScrollCalls = {}
    ]_vars

ContentState ==
  (mounted /\ hasContent(composition)) =>
     /\ isOpen => content.shouldRender
     /\ lastOp.op = "mount" => ~content.shouldRender
     /\ (~isOpen /\ content.shouldRender) =>
           /\ content.timer # <<>>
           /\ content.timer[1] <= ContentExitTicks
     /\ list.mounted = content.shouldRender

ContentStep ==
  /\ Ran("contentTimer") => (~isOpen /\ ~content'.shouldRender /\ ~list'.mounted)
  /\ (Opens /\ hasContent(composition) /\ content.timer # <<>>) =>
        /\ content'.timer = <<>>
        /\ content.shouldRender /\ content'.shouldRender
        /\ list'.mounted

\* C30: DropdownContent has its children rendered whenever isOpen is true; it
\* renders nothing at first, and nothing once its exit timer, pending from the
\* moment isOpen became false, has fired; when isOpen becomes true again while
\* that timer is pending, the timer is cancelled and the children stay rendered.
C30_ContentRendering ==
  []ContentState /\ [][ContentStep]_vars

\* reopened while the exit timer was pending: the list was never unmounted, so
\* it saw the dropdown closed and now scrolls to the selected item
C30_Witness ==
  /\ composition = "searchable"
  /\ isOpen /\ ~lastOp.isOpen
  /\ content.shouldRender /\ content.timer = <<>>
  /\ list.mounted
  /\ requests = << <<"scrollIntoView", getItemKey(selectedItem)>> >>

\* C31: no handler that runs while disabled is true calls the caller's
\* onSelect, whatever changes of disabled, openings and clicks on options came
\* before.
C31_NoSelectWhileDisabled ==
  [][ (~Tick /\ disabled) => onSelectCalls' = <<>> ]_vars

ExitStarted ==
  /\ animationState' = "exiting"
  /\ Len(timers') = Len(timers) + 1
  /\ timers'[Len(timers')].kind = "exit"
  /\ timers'[Len(timers')].remaining = ExitTicks

\* C38: with disabled true and the dropdown open, closeImmediate closes it at
\* once, and closeDropdown, toggleDropdown and a pointer event outside the root
\* either close it at once or start the exit animation with its timer, whose
\* firing closes it; disabled does not stand in the way of any of them.
C38_DisabledStillCloses ==
  [][ (mounted /\ disabled /\ isOpen) =>
        /\ Ran("closeImmediate") => (~isOpen' /\ animationState' = "idle")
        /\ (Ran("closeDropdown") \/ Ran("toggleDropdown") \/ PointerOutside) =>
              \/ ~isOpen' /\ animationState' = "idle"
              \/ isOpen' /\ ExitStarted
        /\ Ran("exitTimer") => (~isOpen' /\ animationState' = "idle")
    ]_vars

\* the instance was disabled while open, and a mousedown outside the root has
\* started its exit
C38_Witness ==
  /\ disabled
  /\ lastOp.op = "mousedownOutside"
  /\ lastOp.isOpen
  /\ animationState = "exiting"
  /\ requests = << <<"closeDropdown">> >>

\* C32: in every reachable state of a mounted instance at most one animation
\* timer, enter or exit, is pending.
C32_AtMostOneTimer ==
  mounted => Len(timers) <= 1

\* C33: for each of mousedown and touchstart the instance has one listener on
\* document when it is mounted with isOpen true and none otherwise: never two,
\* and none left after isOpen became false or after the unmount.
C33_ListenerLifecycle ==
  \A type \in PointerEvents :
     listening[type] = IF mounted /\ isOpen THEN 1 ELSE 0

\* the dropdown was closed with an exit timer left pending and has been opened
\* again: it has one listener of each type
C33_Witness ==
  /\ mounted /\ isOpen
  /\ ~lastOp.isOpen
  /\ \E i \in 1..Len(timers) : timers[i].kind = "exit"
  /\ \A type \in PointerEvents : listening[type] = 1

\* ungrouped, then the items of each section in the order of the sections
Buckets(g) ==
  <<g.ungrouped>> \o [s \in 1..Len(g.sections) |-> g.sections[s].items]

\* the items of its at the positions in P, in the order of its
AtPositions(its, P) ==
  LET idx == SelectSeq([i \in 1..Len(its) |-> i], LAMBDA i : i \in P)
  IN [k \in 1..Len(idx) |-> its[idx[k]]]

\* C34: the positions of the item list can be dealt out to ungrouped and the
\* sections, each position to exactly one of them, so that ungrouped and every
\* section hold exactly the items at their positions, in the order of the
\* list: every item appears once, and relative order is kept inside each.
C34_GroupingKeepsOrder ==
  [][ Ran("groupItemsBySection") =>
        LET B == Buckets(groupedItems')
        IN \E a \in [1..Len(items) -> 1..Len(B)] :
              \A b \in 1..Len(B) :
                 B[b] = AtPositions(items, {i \in 1..Len(items) : a[i] = b})
    ]_vars

\* two of three items are in the one section, in their order in the list, and
\* the item between them is ungrouped
C34_Witness ==
  /\ lastOp.op = "groupItemsBySection"
  /\ items = << <<"c">>, <<"b">>, <<"a">> >>
  /\ groupedItems.ungrouped = << <<"b">> >>
  /\ Len(groupedItems.sections) = 1
  /\ groupedItems.sections[1].items = << <<"c">>, <<"a">> >>

\* C35: with no section accessor the result is no sections and ungrouped equal
\* to the list; with one, there is one section for each distinct key the
\* accessor returns on the list, the sections are in the order in which their
\* keys first occur in the list, each holds the items of its key, and the
\* items with no section are the ungrouped ones.
C35_GroupingBuckets ==
  [][ Ran("groupItemsBySection") =>
        LET g == groupedItems'
        IN /\ sectionAccessor = <<>> => g = [sections |-> <<>>, ungrouped |-> items]
           /\ sectionAccessor # <<>> =>
                LET sectionOf(i) == sectionAccessor[1][items[i]]
                    Keyed == {i \in 1..Len(items) : sectionOf(i) # <<>>}
                    WithKey(k) == {i \in Keyed : sectionOf(i)[1].key = k}
                    SeenKeys == {sectionOf(i)[1].key : i \in Keyed}
                    First(k) == CHOOSE i \in WithKey(k) : \A j \in WithKey(k) : i <= j
                    keyAt(s) == g.sections[s].meta.key
                IN /\ Len(g.sections) = Cardinality(SeenKeys)
                   /\ {keyAt(s) : s \in 1..Len(g.sections)} = SeenKeys
                   /\ \A s, u \in 1..Len(g.sections) :
                         s < u => First(keyAt(s)) < First(keyAt(u))
                   /\ \A s \in 1..Len(g.sections) :
                         g.sections[s].items = AtPositions(items, WithKey(keyAt(s)))
                   /\ g.ungrouped =
                         AtPositions(items, {i \in 1..Len(items) : sectionOf(i) = <<>>})
    ]_vars

\* two sections in the order their keys were first seen, the second with two
\* items whose metas have the same key and different labels
C35_Witness ==
  /\ lastOp.op = "groupItemsBySection"
  /\ items = << <<"b">>, <<"c">>, <<"a">> >>
  /\ groupedItems.ungrouped = <<>>
  /\ Len(groupedItems.sections) = 2
  /\ groupedItems.sections[1].meta.key = "y"
  /\ groupedItems.sections[2].meta = [key |-> "x", label |-> "Z"]
  /\ groupedItems.sections[2].items = << <<"c">>, <<"a">> >>
  /\ sectionAccessor[1][<<"a">>] = << [key |-> "x", label |-> "X"] >>

\* the calls of the sequence calls, made after a latest call of last (<<>> when
\* there was none before), alternate and the very first of them carries TRUE
Alternates(last, calls) ==
  LET seq == last \o calls
  IN /\ (last = <<>> /\ calls # <<>>) => calls[1] = TRUE
     /\ \A i \in 1..(Len(seq) - 1) : seq[i] # seq[i + 1]

\* C36: over any sequence of toggles, closeDropdown and closeImmediate calls,
\* item selections and timer firings the onOpenChange calls alternate,
\* beginning with true: the calls of every handler or timer callback continue
\* the alternation from the latest call made before it.
C36_OnOpenChangeAlternates ==
  [][ ~Tick => Alternates(onOpenChangeLast, onOpenChangeCalls') ]_vars

\* C37: when the list has an onSelect prop of its own, a click on an option
\* calls that prop once, with the clicked item, does not call the root's
\* onSelect and leaves selectedItem as it was; with closeOnSelect the click
\* still starts the close.
C37_ListOnSelect ==
  [][ /\ (isOpen /\ customOnSelect) =>
            \A i \in 1..Len(items) :
               /\ resolvedOnSelect(Cur, items[i]).customOnSelectCalls = <<items[i]>>
               /\ resolvedOnSelect(Cur, items[i]).onSelectCalls = <<>>
               /\ resolvedOnSelect(Cur, items[i]).selectedItem = selectedItem
      /\ (Ran("optionClick") /\ customOnSelect) =>
            /\ \E i \in 1..Len(items) : customOnSelectCalls' = <<items[i]>>
            /\ onSelectCalls' = <<>>
            /\ selectedItem' = selectedItem
            /\ closeOnSelect => ExitStarted
    ]_vars

\* the first item has been clicked in a list with its own onSelect while the
\* second was the selected one: the prop was called with the first item, the
\* second is still selected and the exit animation runs
C37_Witness ==
  /\ customOnSelect
  /\ closeOnSelect
  /\ lastOp.op = "optionClick"
  /\ customOnSelectCalls = <<ItemList[1]>>
  /\ onSelectCalls = <<>>
  /\ selectedItem = ItemList[2]
  /\ isOpen
  /\ animationState = "exiting"
  /\ ExitPending

\* C39: however replacements of the item list and key events interleave,
\* Enter calls onSelect at most once, and only with the item of the current
\* list at the cursor's index; with the cursor past the end of the current
\* list (or on no item) Enter calls nothing.
C39_EnterWithinCurrentItems ==
  [][ Ran("Enter") =>
        LET index == keyboard.focusedIndex
            current == keyboard'.items
        IN /\ onSelectCalls' # <<>> =>
                 /\ index \in 0..(Len(current) - 1)
                 /\ onSelectCalls' = <<current[index + 1]>>
           /\ (index < 0 \/ index >= Len(current)) => onSelectCalls' = <<>>
    ]_vars

\* Enter was pressed with the cursor on the third item of a list since
\* replaced by a list of one item, and nothing was selected
C39_Witness ==
  /\ lastOp.op = "Enter"
  /\ keyboard.focusedIndex = 2
  /\ Len(keyboard.items) = 1
  /\ onSelectCalls = <<>>

\* C40: closeImmediate affects only its own close.  A toggleDropdown that
\* reopens the dropdown closed by closeImmediate clears the skip flag; the flag
\* is clear whenever the dropdown is open, so that a closeDropdown called then
\* would set animationState to exiting and start an exit timer, the dropdown
\* staying open meanwhile; and every closeDropdown called on the open dropdown
\* does so.
C40_SkipClearedByOpen ==
  [][ /\ (Ran("toggleDropdown") /\ ~isOpen /\ skipExitAnimationRef) =>
            isOpen' /\ ~skipExitAnimationRef'
      /\ isOpen =>
            LET closed == closeDropdown(Cur)
            IN /\ ~skipExitAnimationRef
               /\ closed.isOpen
               /\ closed.animationState = "exiting"
               /\ Len(closed.timers) = Len(timers) + 1
               /\ closed.timers[Len(closed.timers)].kind = "exit"
               /\ closed.onOpenChangeCalls = <<>>
      /\ (Ran("closeDropdown") /\ isOpen) => isOpen' /\ ExitStarted
    ]_vars

\* the dropdown has been reopened by toggleDropdown after a closeImmediate
\* that came while its first enter timer was pending (the timer is still
\* pending, superseded): the flag is clear and closeDropdown would animate
C40_Witness ==
  /\ lastOp = [op |-> "toggleDropdown", isOpen |-> FALSE, searchQuery |-> <<>>]
  /\ isOpen
  /\ ~skipExitAnimationRef
  /\ Len(timers) = 2
  /\ timers[1].kind = "enter" /\ timers[1].superseded
  /\ timers[2].kind = "enter" /\ ~timers[2].superseded
  /\ closeDropdown(Cur).animationState = "exiting"

====
